---- MODULE Spec2Model ----
(***************************************************************************)
(* Model of git/working.go: the working clone ("Checkout") of a mirrored   *)
(* git repository.                                                         *)
(*                                                                         *)
(*   Spec    Repo.Clone run by several callers concurrently with the       *)
(*           background refresh of the mirror (the mirror's RWMutex).      *)
(*   TxSpec  the CommitAndPush transactions of a working clone, with       *)
(*           GetNote and NoteRevList, against the shared remote.           *)
(*   TagSpec the MoveTagAndPush transactions of the working clones.        *)
(*   FairSpec  Spec for one configuration, with the fairness under which   *)
(*           a waiting refresh gets the lock.                              *)
(*   RaceSpec  two working clones committing and pushing side by side.     *)
(*   PathSpec  Checkout.AbsolutePaths over the path filters.               *)
(*   KeySpec the signing key of CommitAndPush and MoveTagAndPush.          *)
(*                                                                         *)
(* The single-command git operations (fetch, commit, push, ...), the       *)
(* mirror and its refresh loop are not part of working.go; they are        *)
(* modelled by their contracts, every one of them being able to fail.      *)
(***************************************************************************)
EXTENDS Naturals, Sequences, FiniteSets, TLC

\* ------------------------------------------------------------------ bounds

\* Concurrent callers of Repo.Clone; caller i's working clone is checkout i.
NumCallers == 2
\* Times the background refresh rewrites the mirror.
MaxRefresh == 2
\* Commits one working clone may create.
MaxCommits == 2
\* Updates of the remote made by actors other than the working clones.
MaxOther == 1
\* Path filters in a Config.Paths given to AbsolutePaths.
MaxPaths == 2

Callers == 1..NumCallers

\* ------------------------------------------------------------- revisions

\* A revision is the sequence of its authors from the root commit <<0>>;
\* a ref that does not exist has the value NoRev.
NoRev == <<>>
RootRev == <<0>>

IsPrefix(p, s) == Len(p) <= Len(s) /\ SubSeq(s, 1, Len(p)) = p

\* a is an ancestor of (or equal to) b: a fast-forward from a to b exists.
IsAncestor(a, b) == a # NoRev /\ IsPrefix(a, b)

\* The revisions reachable from rev.
History(rev) == {SubSeq(rev, 1, n) : n \in 1..Len(rev)}

\* ----------------------------------------------------------------- notes

\* The value of a notes ref is the set of its notes <<revision, payload>>;
\* a notes ref without notes does not exist. One value descends from
\* another when it holds all of the other's notes.
NoNotes == {}
NotesDescend(a, b) == a \subseteq b

\* A ref name is the sequence of its path components.
ShortNotesRef == <<"flux">>
FullNotesRef == <<"refs", "notes", "flux">>
NotesRefNames == {ShortNotesRef, <<"notes", "flux">>, FullNotesRef}
NoRefName == <<>>

\* What `git notes --ref <name>` makes of <name>.
ExpandNotesRef(name) ==
    IF IsPrefix(<<"refs", "notes">>, name) THEN name
    ELSE IF IsPrefix(<<"notes">>, name) THEN <<"refs">> \o name
    ELSE <<"refs", "notes">> \o name

\* getNotesRef: `git notes --ref <conf.NotesRef> get-ref`.
getNotesRef(name) == ExpandNotesRef(name)

\* ------------------------------------------------------------- upstream

\* What the upstream holds when the mirror is refreshed for the k-th time.
\* Tags and the notes ref are moved freely by other actors: each refresh
\* finds them at a value that does not descend from the previous one. The
\* branch only moves forward. A brand-new repository (k = 0) has no notes.
UpstreamTag(k) == IF k = 0 THEN RootRev ELSE <<0, k>>
UpstreamNotes(k) == IF k = 0 THEN NoNotes ELSE {<<RootRev, <<"upstream", k>>>>}
UpstreamHead(k) == RootRev \o [n \in 1..k |-> 0]

\* ------------------------------------------------------------- refspecs

\* A refspec is [force, src, dst]; a leading '+' is the force flag.
\* A variant of the tags refspec that has lost its '+'.
TagsRefspecPlain == [force |-> FALSE, src |-> <<"refs", "tags", "*">>,
                     dst |-> <<"refs", "tags", "*">>]

TagsRefspec == [force |-> TRUE, src |-> <<"refs", "tags", "*">>,
                dst |-> <<"refs", "tags", "*">>]
NotesRefspec(ref) == [force |-> FALSE, src |-> ref, dst |-> ref]

\* fetch of a tag: a missing source leaves the local ref alone; an update
\* that is not a fast-forward needs the force flag.
FetchTagAccepts(local, remote, force) ==
    \/ remote = NoRev
    \/ local = NoRev
    \/ force
    \/ IsAncestor(local, remote)

FetchTagValue(local, remote) == IF remote = NoRev THEN local ELSE remote

\* fetch of a notes ref, likewise.
FetchNotesAccepts(local, remote, force) ==
    \/ remote = NoNotes
    \/ local = NoNotes
    \/ force
    \/ NotesDescend(local, remote)

FetchNotesValue(local, remote) == IF remote = NoNotes THEN local ELSE remote

\* ----------------------------------------------------------------- state

VARIABLES
    conf,          \* the Config the callers pass to Clone (one per run)
    \* Repo.Clone, per caller
    pc,            \* position of the call
    dir,           \* whether repoDir exists on disk
    ret,           \* "none" | "ok" | "err": what Clone returned
    realNotesRef,  \* Clone's realNotesRef, then Checkout.realNotesRef
    fetchLog,      \* the fetches attempted: <<[spec, ok, locked]>>
    \* the repository in repoDir, per caller
    localHead,     \* the branch
    localTag,      \* refs/tags/v1
    localNotes,    \* the notes refs, by name
    tree,          \* the working tree against HEAD
    \* the mirror (Repo)
    readers,       \* callers holding r.mu.RLock
    writer,        \* whether r.mu is held for writing
    refreshPc,     \* "idle" | "waiting" | "locked"
    refreshes,     \* completed refreshes
    mirrorTag,
    mirrorNotes,
    mirrorHead,
    \* the transactions of a Checkout, per caller
    txPc,          \* "ready" | "push" | "tagPush"
    call,          \* the call in progress, or the last one
    quiet,         \* [valid, au]: the last CommitAndPush committed, with
                   \* addUntracked = au, and no file has changed since
    \* the remote (upstream.URL)
    remoteBranch,
    remoteTag,
    remoteNotes,   \* the notes refs, by name
    others         \* updates made by other actors

cloneVars == <<pc, dir, ret, realNotesRef, fetchLog>>
repoVars == <<localHead, localTag, localNotes, tree>>
mirrorVars == <<readers, writer, refreshPc, refreshes, mirrorTag,
                mirrorNotes, mirrorHead>>
txVars == <<txPc, call, quiet>>
remoteVars == <<remoteBranch, remoteTag, remoteNotes, others>>
vars == <<conf, cloneVars, repoVars, mirrorVars, txVars, remoteVars>>

\* The directories of the repository, and Config.Paths over them.
Dirs == {"manifests", "docs"}
PathFilters == {<<>>, <<"manifests">>}

\* Signing keys: "" is no key.
ConfigKey == "confkey"
CallKey == "callkey"

Configs == [Paths : PathFilters, NotesRef : {ShortNotesRef, FullNotesRef},
            GitSecret : BOOLEAN, SigningKey : {"", ConfigKey}]

\* A working tree: the directories with modified tracked (or staged) files,
\* and whether there are untracked files (in UntrackedDir).
CleanTree == [modified |-> {}, untracked |-> FALSE]
Trees == [modified : SUBSET Dirs, untracked : BOOLEAN]
UntrackedDir == "docs"

NoCall == [op |-> "none"]

NoNotesRefs == [n \in NotesRefNames |-> NoNotes]

Init ==
    /\ conf \in {c \in Configs : c.Paths = <<>> /\ c.SigningKey = ConfigKey}
    /\ pc = [i \in Callers |-> "idle"]
    /\ dir = [i \in Callers |-> FALSE]
    /\ ret = [i \in Callers |-> "none"]
    /\ realNotesRef = [i \in Callers |-> NoRefName]
    /\ fetchLog = [i \in Callers |-> <<>>]
    /\ localHead = [i \in Callers |-> NoRev]
    /\ localTag = [i \in Callers |-> NoRev]
    /\ localNotes = [i \in Callers |-> NoNotesRefs]
    /\ tree = [i \in Callers |-> CleanTree]
    /\ readers = {}
    /\ writer = FALSE
    /\ refreshPc = "idle"
    /\ refreshes = 0
    /\ mirrorTag = UpstreamTag(0)
    /\ mirrorNotes = UpstreamNotes(0)
    /\ mirrorHead = UpstreamHead(0)
    /\ txPc = [i \in Callers |-> "ready"]
    /\ call = [i \in Callers |-> NoCall]
    /\ quiet = [i \in Callers |-> [valid |-> FALSE, au |-> FALSE]]
    /\ remoteBranch = UpstreamHead(0)
    /\ remoteTag = UpstreamTag(0)
    /\ remoteNotes = NoNotesRefs
    /\ others = 0

\* ------------------------------------------------------------ Repo.Clone

\* The call returns the error; Clone's caller holds no *Checkout.
ReturnErr(i) ==
    /\ ret' = [ret EXCEPT ![i] = "err"]
    /\ pc' = [pc EXCEPT ![i] = "done"]

\* os.RemoveAll(repoDir): the directory and the repository in it are gone.
RemoveAll(i) ==
    /\ dir' = [dir EXCEPT ![i] = FALSE]
    /\ localHead' = [localHead EXCEPT ![i] = NoRev]
    /\ localTag' = [localTag EXCEPT ![i] = NoRev]
    /\ localNotes' = [localNotes EXCEPT ![i] = NoNotesRefs]
    /\ UNCHANGED tree

\* The steps of Clone that may fail before the lock is taken.
SetupSteps == {"workingClone", "config", "getNotesRef"}

\* upstream := r.Origin()
\* repoDir, err := r.workingClone(ctx, conf.Branch)   a fresh directory
\*     cloned from the mirror (branch and tags), or an error and no directory
\* config(ctx, repoDir, conf.UserName, conf.UserEmail)
\* realNotesRef, err := getNotesRef(ctx, repoDir, conf.NotesRef)
\* These touch the caller's own directory only; failAt names the one that
\* fails, if any.
CloneSetup(i, failAt) ==
    /\ pc[i] = "idle"
    /\ IF failAt = "none"
       THEN /\ dir' = [dir EXCEPT ![i] = TRUE]
            /\ localHead' = [localHead EXCEPT ![i] = mirrorHead]
            /\ localTag' = [localTag EXCEPT ![i] = mirrorTag]
            /\ realNotesRef' =
                  [realNotesRef EXCEPT ![i] = getNotesRef(conf.NotesRef)]
            /\ pc' = [pc EXCEPT ![i] = "rlock"]
            /\ UNCHANGED <<ret, localNotes, tree>>
       ELSE \* workingClone left no directory; the later steps remove it
            /\ RemoveAll(i)
            /\ ReturnErr(i)
            /\ UNCHANGED realNotesRef
    /\ UNCHANGED <<conf, fetchLog, mirrorVars, txVars, remoteVars>>

\* sync.RWMutex.RLock: blocks while the lock is held for writing, and while
\* a writer waits for it.
RLock(i) ==
    /\ ~writer
    /\ refreshPc # "waiting"
    /\ readers' = readers \cup {i}

\* sync.RWMutex.RUnlock
RUnlock(i) == readers' = readers \ {i}

\* Clone without its r.mu.RLock().
CloneRLockOmitted(i) ==
    /\ pc[i] = "rlock"
    /\ pc' = [pc EXCEPT ![i] = "fetchTags"]
    /\ UNCHANGED <<conf, dir, ret, realNotesRef, fetchLog, repoVars,
                   mirrorVars, txVars, remoteVars>>

\* Clone taking the lock with r.mu.Lock(): it waits for the readers too.
CloneRLockExclusive(i) ==
    /\ pc[i] = "rlock"
    /\ readers = {}
    /\ RLock(i)
    /\ pc' = [pc EXCEPT ![i] = "fetchTags"]
    /\ UNCHANGED <<conf, dir, ret, realNotesRef, fetchLog, repoVars,
                   txVars, remoteVars>>
    /\ UNCHANGED <<writer, refreshPc, refreshes, mirrorTag, mirrorNotes,
                   mirrorHead>>

\* r.mu.RLock()
CloneRLock(i) ==
    /\ pc[i] = "rlock"
    /\ RLock(i)
    /\ pc' = [pc EXCEPT ![i] = "fetchTags"]
    /\ UNCHANGED <<conf, dir, ret, realNotesRef, fetchLog, repoVars,
                   txVars, remoteVars>>
    /\ UNCHANGED <<writer, refreshPc, refreshes, mirrorTag, mirrorNotes,
                   mirrorHead>>

\* One entry of the fetch log: the refspec, whether the fetch succeeded, and
\* whether the caller held the read lock, with no writer, while it ran.
Fetched(i, spec, ok) ==
    [spec |-> spec, ok |-> ok, locked |-> i \in readers /\ ~writer]

\* Clone going on to the notes fetch whatever the tag fetch returned.
CloneFetchTagsErrIgnored(i, ok) ==
    /\ pc[i] = "fetchTags"
    /\ ok => FetchTagAccepts(localTag[i], mirrorTag, TagsRefspec.force)
    /\ fetchLog' = [fetchLog EXCEPT ![i] = Append(@, Fetched(i, TagsRefspec, ok))]
    /\ localTag' = [localTag EXCEPT
                      ![i] = IF ok THEN FetchTagValue(@, mirrorTag) ELSE @]
    /\ pc' = [pc EXCEPT ![i] = "fetchNotes"]
    /\ UNCHANGED <<conf, dir, ret, realNotesRef, localHead, localNotes, tree,
                   mirrorVars, txVars, remoteVars>>

\* fetch(ctx, repoDir, r.dir, `'+refs/tags/*:refs/tags/*'`), and on its
\* error os.RemoveAll(repoDir).
CloneFetchTags(i, ok) ==
    /\ pc[i] = "fetchTags"
    /\ ok => FetchTagAccepts(localTag[i], mirrorTag, TagsRefspec.force)
    /\ fetchLog' = [fetchLog EXCEPT ![i] = Append(@, Fetched(i, TagsRefspec, ok))]
    /\ IF ok
       THEN /\ localTag' = [localTag EXCEPT ![i] = FetchTagValue(@, mirrorTag)]
            /\ pc' = [pc EXCEPT ![i] = "fetchNotes"]
            /\ UNCHANGED <<dir, localHead, localNotes, tree>>
       ELSE /\ RemoveAll(i)
            /\ pc' = [pc EXCEPT ![i] = "runlockErr"]
    /\ UNCHANGED <<conf, ret, realNotesRef, mirrorVars, txVars, remoteVars>>

\* fetch(ctx, repoDir, r.dir, realNotesRef+":"+realNotesRef), and on its
\* error os.RemoveAll(repoDir).
CloneFetchNotes(i, ok) ==
    /\ pc[i] = "fetchNotes"
    /\ LET spec == NotesRefspec(realNotesRef[i]) IN
       /\ ok => FetchNotesAccepts(localNotes[i][spec.dst], mirrorNotes, spec.force)
       /\ fetchLog' = [fetchLog EXCEPT ![i] = Append(@, Fetched(i, spec, ok))]
       /\ IF ok
          THEN /\ localNotes' = [localNotes EXCEPT
                                   ![i][spec.dst] = FetchNotesValue(@, mirrorNotes)]
               /\ pc' = [pc EXCEPT ![i] = "runlock"]
               /\ UNCHANGED <<dir, localHead, localTag, tree>>
          ELSE /\ RemoveAll(i)
               /\ pc' = [pc EXCEPT ![i] = "runlockErr"]
    /\ UNCHANGED <<conf, ret, realNotesRef, mirrorVars, txVars, remoteVars>>

\* Clone returning the error of a fetch without its r.mu.RUnlock().
CloneReturnErrLocked(i) ==
    /\ pc[i] = "runlockErr"
    /\ ReturnErr(i)
    /\ UNCHANGED <<conf, dir, realNotesRef, fetchLog, repoVars, txVars,
                   remoteVars>>
    /\ UNCHANGED mirrorVars

\* r.mu.RUnlock(); return nil, err  (after a failed fetch)
CloneRUnlockErr(i) ==
    /\ pc[i] = "runlockErr"
    /\ RUnlock(i)
    /\ ReturnErr(i)
    /\ UNCHANGED <<conf, dir, realNotesRef, fetchLog, repoVars, txVars,
                   remoteVars>>
    /\ UNCHANGED <<writer, refreshPc, refreshes, mirrorTag, mirrorNotes,
                   mirrorHead>>

\* r.mu.RUnlock()  (after both fetches)
CloneRUnlock(i) ==
    /\ pc[i] = "runlock"
    /\ RUnlock(i)
    /\ pc' = [pc EXCEPT ![i] = "unseal"]
    /\ UNCHANGED <<conf, dir, ret, realNotesRef, fetchLog, repoVars, txVars,
                   remoteVars>>
    /\ UNCHANGED <<writer, refreshPc, refreshes, mirrorTag, mirrorNotes,
                   mirrorHead>>

\* if conf.GitSecret { secretUnseal(ctx, repoDir) }; return &Checkout{...}
\* `ok` is the outcome of secretUnseal, read only when it is called.
CloneUnseal(i, ok) ==
    /\ pc[i] = "unseal"
    /\ (~conf.GitSecret) => ok
    /\ IF conf.GitSecret /\ ~ok
       THEN ReturnErr(i)
       ELSE /\ ret' = [ret EXCEPT ![i] = "ok"]
            /\ pc' = [pc EXCEPT ![i] = "done"]
    /\ UNCHANGED <<conf, dir, realNotesRef, fetchLog, repoVars, mirrorVars,
                   txVars, remoteVars>>

\* -------------------------------------------------- the mirror's refresh

\* The refresh calls r.mu.Lock() and waits for the readers to leave.
RefreshWant ==
    /\ refreshPc = "idle"
    /\ refreshes < MaxRefresh
    /\ refreshPc' = "waiting"
    /\ UNCHANGED <<readers, writer, refreshes, mirrorTag, mirrorNotes,
                   mirrorHead>>
    /\ UNCHANGED <<conf, cloneVars, repoVars, txVars, remoteVars>>

\* sync.RWMutex.Lock returns.
RefreshLock ==
    /\ refreshPc = "waiting"
    /\ readers = {}
    /\ ~writer
    /\ writer' = TRUE
    /\ refreshPc' = "locked"
    /\ UNCHANGED <<readers, refreshes, mirrorTag, mirrorNotes, mirrorHead>>
    /\ UNCHANGED <<conf, cloneVars, repoVars, txVars, remoteVars>>

\* The refresh writes what it fetched from upstream into the mirror and
\* unlocks.
RefreshWrite ==
    /\ refreshPc = "locked"
    /\ refreshes' = refreshes + 1
    /\ mirrorTag' = UpstreamTag(refreshes')
    /\ mirrorNotes' = UpstreamNotes(refreshes')
    /\ mirrorHead' = UpstreamHead(refreshes')
    /\ writer' = FALSE
    /\ refreshPc' = "idle"
    /\ UNCHANGED readers
    /\ UNCHANGED <<conf, cloneVars, repoVars, txVars, remoteVars>>

CloneNext ==
    \/ \E i \in Callers, failAt \in SetupSteps \cup {"none"} :
          CloneSetup(i, failAt)
    \/ \E i \in Callers : CloneRLock(i)
    \/ \E i \in Callers, ok \in BOOLEAN : CloneFetchTags(i, ok)
    \/ \E i \in Callers, ok \in BOOLEAN : CloneFetchNotes(i, ok)
    \/ \E i \in Callers : CloneRUnlockErr(i)
    \/ \E i \in Callers : CloneRUnlock(i)
    \/ \E i \in Callers, ok \in BOOLEAN : CloneUnseal(i, ok)
    \/ RefreshWant
    \/ RefreshLock
    \/ RefreshWrite

Spec == Init /\ [][CloneNext]_vars

\* A Clone that has the lock goes on: its fetches terminate and it unlocks;
\* the refresh goes on once sync.RWMutex gives it the lock. The lock does
\* not depend on the configuration, which is fixed here.
FairInit ==
    /\ Init
    /\ conf.NotesRef = ShortNotesRef
    /\ conf.GitSecret

FairSpec ==
    /\ FairInit
    /\ [][CloneNext]_vars
    /\ \A i \in Callers :
          /\ WF_vars(\E ok \in BOOLEAN : CloneFetchTags(i, ok))
          /\ WF_vars(\E ok \in BOOLEAN : CloneFetchNotes(i, ok))
          /\ WF_vars(CloneRUnlock(i))
          /\ WF_vars(CloneRUnlockErr(i))
    /\ WF_vars(RefreshLock)
    /\ WF_vars(RefreshWrite)

\* ------------------------------------------------- properties of Clone

\* C1: Clone is all-or-nothing: whenever it has returned an error the
\* directory it created no longer exists, and whenever it has returned a
\* Checkout the directory exists.
C1_CloneAllOrNothing ==
    \A i \in Callers :
        /\ ret[i] = "err" => ~dir[i]
        /\ ret[i] = "ok" => dir[i]

\* C2: a tag or notes fetch of Clone runs only while its caller holds the
\* mirror's read lock and the refresh does not hold the write lock.
C2_FetchUnderReadLock ==
    \A i \in Callers :
        /\ pc[i] \in {"fetchTags", "fetchNotes"} => i \in readers /\ ~writer
        /\ \A k \in 1..Len(fetchLog[i]) : fetchLog[i][k].locked

\* A caller between its two fetches while the refresh waits for the lock and
\* another caller is about to ask for it.
C2_Witness ==
    \E i, j \in Callers :
        /\ i # j
        /\ pc[i] = "fetchNotes"
        /\ Len(fetchLog[i]) = 1
        /\ refreshPc = "waiting"
        /\ pc[j] = "rlock"
        /\ refreshes > 0

\* C3: the first fetch of Clone is the tag fetch; the notes-ref fetch is the
\* second and last, and is attempted only after the tag fetch succeeded.
C3_TagsBeforeNotes ==
    \A i \in Callers :
        LET log == fetchLog[i] IN
        /\ Len(log) <= 2
        /\ Len(log) >= 1 => log[1].spec = TagsRefspec
        /\ Len(log) = 2 => /\ log[1].ok
                           /\ log[2].spec = NotesRefspec(realNotesRef[i])
        /\ pc[i] \in {"fetchNotes", "runlock", "unseal"} =>
              Len(log) >= 1 /\ log[1].ok

\* One Clone has done both fetches, and another has returned after its tag
\* fetch failed, without a notes fetch.
C3_Witness ==
    \E i, j \in Callers :
        /\ Len(fetchLog[i]) = 2
        /\ fetchLog[i][2].ok
        /\ pc[j] = "done"
        /\ Len(fetchLog[j]) = 1
        /\ ~fetchLog[j][1].ok

\* C15: the read lock is shared. A Clone that asks for it gets it whenever
\* the refresh neither holds nor waits for the lock, whoever else holds it
\* for reading, and a Clone inside its fetch section can always go on,
\* whatever the other Clones do.
C15_ReadLockShared ==
    \A i \in Callers :
        /\ pc[i] = "rlock" /\ ~writer /\ refreshPc # "waiting" =>
               ENABLED CloneRLock(i)
        /\ pc[i] = "fetchTags" => ENABLED CloneFetchTags(i, TRUE)
        /\ pc[i] = "fetchNotes" => ENABLED CloneFetchNotes(i, TRUE)
        /\ pc[i] = "runlock" => ENABLED CloneRUnlock(i)
        /\ pc[i] = "runlockErr" => ENABLED CloneRUnlockErr(i)

\* Two Clones hold the read lock at the same time, one at its tag fetch and
\* one at its notes fetch.
C15_Witness ==
    \E i, j \in Callers :
        /\ i # j
        /\ {i, j} \subseteq readers
        /\ pc[i] = "fetchTags"
        /\ pc[j] = "fetchNotes"
        /\ ~writer

\* Caller i's Clone is between its r.mu.RLock() and its r.mu.RUnlock().
InFetchSection(i) ==
    pc[i] \in {"fetchTags", "fetchNotes", "runlock", "runlockErr"}

\* C19: a Clone holds the read lock exactly while it is between its RLock
\* and its RUnlock, so never when it has returned, by whatever path; it
\* takes the lock only when it does not hold it and releases it only when
\* it holds it. With fetches that terminate, a refresh that waits for the
\* write lock gets it.
C19_LockBalanced ==
    /\ [](\A i \in Callers : i \in readers <=> InFetchSection(i))
    /\ [][\A i \in Callers :
             /\ pc[i] = "rlock" /\ pc'[i] # pc[i] =>
                    i \notin readers /\ i \in readers'
             /\ pc[i] \in {"runlock", "runlockErr"} /\ pc'[i] # pc[i] =>
                    i \in readers /\ i \notin readers'
             /\ pc'[i] = "done" => i \notin readers']_vars
    /\ (refreshPc = "waiting" ~> refreshPc = "locked")

\* The refresh has got the write lock after one Clone returned the error of
\* its tag fetch and another returned a Checkout, neither holding the lock.
C19_Witness ==
    /\ refreshPc = "locked"
    /\ writer
    /\ readers = {}
    /\ \E i, j \in Callers :
          /\ pc[i] = "done" /\ ret[i] = "err"
          /\ Len(fetchLog[i]) = 1
          /\ pc[j] = "done" /\ ret[j] = "ok"

\* The n-th fetch of caller i's Clone runs in this step and succeeds.
FetchSucceeds(i, n) ==
    /\ Len(fetchLog[i]) = n - 1
    /\ Len(fetchLog'[i]) = n
    /\ fetchLog'[i][n].ok

\* What the fetches of Clone do to the working clone: the first brings the
\* tag to the mirror's value and the second the notes ref, each leaving the
\* branch head and everything else alone; there is no third fetch, and the
\* rest of Clone leaves the refs as fetched.
CloneFetchEffects(i) ==
    /\ Len(fetchLog'[i]) <= 2
    /\ FetchSucceeds(i, 1) =>
           /\ fetchLog'[i][1].spec.dst = <<"refs", "tags", "*">>
           /\ localTag'[i] = mirrorTag
           /\ localHead'[i] = localHead[i]
           /\ localNotes'[i] = localNotes[i]
           /\ tree'[i] = tree[i]
    /\ FetchSucceeds(i, 2) =>
           /\ fetchLog'[i][2].spec.dst = realNotesRef[i]
           /\ fetchLog'[i][2].spec.src = realNotesRef[i]
           /\ localNotes'[i][realNotesRef[i]] = mirrorNotes
           /\ \A r \in NotesRefNames \ {realNotesRef[i]} :
                  localNotes'[i][r] = localNotes[i][r]
           /\ localHead'[i] = localHead[i]
           /\ localTag'[i] = localTag[i]
           /\ tree'[i] = tree[i]
    /\ pc[i] \in {"runlock", "unseal"} =>
           /\ localHead'[i] = localHead[i]
           /\ localTag'[i] = localTag[i]
           /\ localNotes'[i] = localNotes[i]

BranchRef == <<"refs", "heads", "master">>
UpstreamURL == <<"git@upstream">>

\* Note payloads: the `note interface{}` argument is nil or a payload.
NilNote == <<>>
NotePayload(c) == <<"note", c>>
OtherPayload == <<"other", 0>>

\* add(ctx, dir, "."): stages every change, the untracked files included.
add(t) ==
    [modified |-> t.modified \cup (IF t.untracked THEN {UntrackedDir} ELSE {}),
     untracked |-> FALSE]

Range(seq) == {seq[k] : k \in 1..Len(seq)}

\* check(ctx, dir, paths, addUntracked): whether there is a change to commit,
\* under the path filters, or anywhere when the changes were auto-staged.
check(t, paths, addUntracked) ==
    IF addUntracked \/ paths = <<>>
    THEN t.modified # {}
    ELSE t.modified \cap Range(paths) # {}

\* commit(ctx, dir, commitAction): a new revision on top of HEAD holding every
\* change to tracked and staged files.
commitRev(rev, c) == Append(rev, c)
commitTree(t) == [t EXCEPT !.modified = {}]

\* addNote(ctx, dir, rev, notesRef, note): `git notes --ref <notesRef> add`.
addNote(refs, notesRef, rev, note) ==
    [refs EXCEPT ![ExpandNotesRef(notesRef)] = @ \cup {<<rev, note>>}]

\* getNote(ctx, dir, notesRef, rev, note): `git notes --ref <notesRef> show`.
getNote(refs, notesRef, rev) ==
    LET found == {n \in refs[ExpandNotesRef(notesRef)] : n[1] = rev} IN
    IF found = {} THEN [ok |-> FALSE, note |-> NilNote]
    ELSE [ok |-> TRUE, note |-> (CHOOSE n \in found : TRUE)[2]]

\* noteRevList(ctx, dir, notesRef)
noteRevList(refs, notesRef) == {n[1] : n \in refs[ExpandNotesRef(notesRef)]}

\* refExists(ctx, dir, ref): the ref is looked up by its name as given.
refExists(refs, ref) == ref \in DOMAIN refs /\ refs[ref] # NoNotes

\* push(ctx, dir, url, refs): every ref is updated on its own, when the
\* update is a fast-forward. The push fails as a whole ("nosrc") when a ref
\* does not exist locally, or ("transport") when the remote is not reached;
\* it reports an error ("rejected") when the remote refused a ref, the
\* other refs having been updated.
pushMissing(c, refs) ==
    \E k \in 1..Len(refs) :
        refs[k] # BranchRef /\ ~refExists(localNotes[c], refs[k])

pushBranchOk(c) == IsAncestor(remoteBranch, localHead[c])

pushNotesOk(c, ref) == NotesDescend(remoteNotes[ref], localNotes[c][ref])

pushCause(c, refs, transportOk) ==
    IF pushMissing(c, refs) THEN "nosrc"
    ELSE IF ~transportOk THEN "transport"
    ELSE IF \/ BranchRef \in Range(refs) /\ ~pushBranchOk(c)
            \/ \E r \in Range(refs) \ {BranchRef} : ~pushNotesOk(c, r)
         THEN "rejected"
    ELSE "none"

pushedBranch(c, refs, transportOk) ==
    IF /\ pushCause(c, refs, transportOk) \in {"none", "rejected"}
       /\ BranchRef \in Range(refs)
       /\ pushBranchOk(c)
    THEN localHead[c] ELSE remoteBranch

pushedNotes(c, refs, transportOk) ==
    [r \in NotesRefNames |->
        IF /\ pushCause(c, refs, transportOk) \in {"none", "rejected"}
           /\ r \in Range(refs)
           /\ pushNotesOk(c, r)
        THEN localNotes[c][r] ELSE remoteNotes[r]]

\* --------------------------------------------------- Checkout.CommitAndPush

\* Caller i holds the *Checkout that Clone returned to it.
HasCheckout(c) == pc[c] = "done" /\ ret[c] = "ok" /\ dir[c]

CommitsBy(c) == Cardinality({k \in 1..Len(localHead[c]) : localHead[c][k] = c})

\* The CommitAction arguments: the signing key is the caller's, or empty.
CommitActions == [SigningKey : {"", CallKey}]
NoOverride == [SigningKey |-> ""]

\* A variant that always signs with the key of the Config.
SigningKeyOfConfig(given) == conf.SigningKey

\* if commitAction.SigningKey == "" {
\*     commitAction.SigningKey = c.config.SigningKey }
\* (and the same for tagAction in MoveTagAndPush)
EffectiveSigningKey(given) == IF given = "" THEN conf.SigningKey ELSE given

\* Variants of the test below: one that never finds "no changes", and one
\* that has lost its negation.
NoChangesNever(t, addUntracked) == FALSE
NoChangesNegated(t, addUntracked) == check(t, conf.Paths, addUntracked)

\* A variant that takes untracked files for changes although they were not
\* staged.
NoChangesButUntracked(t, addUntracked) ==
    ~(check(t, conf.Paths, addUntracked) \/ t.untracked)

\* if !check(ctx, c.Dir(), c.config.Paths, addUntracked) { return ErrNoChanges }
NoChanges(t, addUntracked) == ~check(t, conf.Paths, addUntracked)

\* A variant that carries on after a failed commit.
CommitErrIgnored(err) == FALSE

\* if err := commit(ctx, c.Dir(), commitAction); err != nil { return err }
CommitReturnsErr(err) == err

\* A variant that carries on after a failed note write.
AddNoteErrIgnored(err) == FALSE

\* if err != nil { return err } after c.HeadRevision and after addNote
HeadRevisionReturnsErr(err) == err
AddNoteReturnsErr(err) == err

\* A variant that resolves HEAD before the commit.
NoteRevisionBefore(before, after) == before

\* rev, err := c.HeadRevision(ctx), called after the commit
NoteRevision(before, after) == after

\* addNote(ctx, c.Dir(), rev, c.config.NotesRef, note)
NoteRefArg(c) == conf.NotesRef

\* A variant that pushes the notes ref whether it exists or not.
PushRefsAlways(c, ok) == <<BranchRef, realNotesRef[c]>>

\* refs := []string{c.config.Branch}
\* ok, err := refExists(ctx, c.Dir(), c.realNotesRef)
\* if ok { refs = append(refs, c.realNotesRef) }
PushRefs(c, ok) ==
    IF ok THEN <<BranchRef, realNotesRef[c]>> ELSE <<BranchRef>>

\* ... else if err != nil { return err }
RefExistsReturnsErr(ok, err) == ~ok /\ err

\* The steps of CommitAndPush that may fail before the push.
LocalSteps == {"add", "commit", "HeadRevision", "addNote", "refExists"}

\* Lines 133-168 of CommitAndPush: everything up to the push. These steps
\* touch the checkout's own directory only. failAt names the low-level
\* operation that reports an error, if any; okOnErr is the boolean that
\* refExists returns along with its error.
\* The result: the tree, head and notes refs they leave, and the call record.
LocalPhase(c, commitAction, note, au, failAt, okOnErr) ==
    LET t0 == tree[c]
        h0 == localHead[c]
        n0 == localNotes[c]
        addErr == au /\ failAt = "add"
        t1 == IF au /\ ~addErr THEN add(t0) ELSE t0
        changed == check(t1, conf.Paths, au)
        commitErr == failAt = "commit"
        h1 == IF commitErr THEN h0 ELSE commitRev(h0, c)
        t2 == IF commitErr THEN t1 ELSE commitTree(t1)
        noted == note # NilNote
        revErr == noted /\ failAt = "HeadRevision"
        rev == NoteRevision(h0, h1)
        noteErr == noted /\ failAt = "addNote"
        n1 == IF noted /\ ~noteErr THEN addNote(n0, NoteRefArg(c), rev, note)
              ELSE n0
        existsErr == failAt = "refExists"
        ok == IF existsErr THEN okOnErr ELSE refExists(n1, realNotesRef[c])
        key == EffectiveSigningKey(commitAction.SigningKey)
        base == [op |-> "CommitAndPush", commitAction |-> commitAction,
                 key |-> "notrun", note |-> note, au |-> au,
                 check |-> "notrun", failed |-> "none", rev |-> NoRev,
                 refs |-> <<>>, ret |-> "running", err |-> <<>>,
                 log |-> IF au THEN <<"add">> ELSE <<>>]
    IN
    IF addErr THEN
        [tree |-> t0, head |-> h0, notes |-> n0,
         call |-> [base EXCEPT !.failed = "add", !.ret = "err",
                               !.err = <<"add">>]]
    ELSE IF NoChanges(t1, au) THEN
        [tree |-> t1, head |-> h0, notes |-> n0,
         call |-> [base EXCEPT !.check = IF changed THEN "changes" ELSE "nochanges",
                               !.log = @ \o <<"check">>,
                               !.ret = "ErrNoChanges"]]
    ELSE IF CommitReturnsErr(commitErr) THEN
        [tree |-> t2, head |-> h1, notes |-> n0,
         call |-> [base EXCEPT !.check = IF changed THEN "changes" ELSE "nochanges",
                               !.log = @ \o <<"check", "commit">>,
                               !.key = key,
                               !.failed = "commit", !.ret = "err",
                               !.err = <<"commit">>]]
    ELSE IF HeadRevisionReturnsErr(revErr) THEN
        [tree |-> t2, head |-> h1, notes |-> n0,
         call |-> [base EXCEPT !.check = IF changed THEN "changes" ELSE "nochanges",
                               !.log = @ \o <<"check", "commit", "HeadRevision">>,
                               !.key = key,
                               !.failed = "HeadRevision", !.ret = "err",
                               !.err = <<"HeadRevision">>]]
    ELSE IF AddNoteReturnsErr(noteErr) THEN
        [tree |-> t2, head |-> h1, notes |-> n0,
         call |-> [base EXCEPT !.check = IF changed THEN "changes" ELSE "nochanges",
                               !.log = @ \o <<"check", "commit", "HeadRevision",
                                              "addNote">>,
                               !.key = key,
                               !.rev = rev,
                               !.failed = "addNote", !.ret = "err",
                               !.err = <<"addNote">>]]
    ELSE
        LET steps == <<"check", "commit">>
                     \o (IF noted THEN <<"HeadRevision", "addNote">> ELSE <<>>)
                     \o <<"refExists">>
            sofar == [base EXCEPT !.check = IF changed THEN "changes" ELSE "nochanges",
                                  !.log = @ \o steps,
                                  !.key = key,
                                  !.rev = IF noted THEN rev ELSE NoRev,
                                  !.failed = IF commitErr THEN "commit"
                                             ELSE IF revErr THEN "HeadRevision"
                                             ELSE IF noteErr THEN "addNote"
                                             ELSE IF existsErr THEN "refExists"
                                             ELSE "none"]
        IN
        IF RefExistsReturnsErr(ok, existsErr) THEN
            [tree |-> t2, head |-> h1, notes |-> n1,
             call |-> [sofar EXCEPT !.ret = "err", !.err = <<"refExists">>]]
        ELSE
            [tree |-> t2, head |-> h1, notes |-> n1,
             call |-> [sofar EXCEPT !.refs = PushRefs(c, ok)]]

\* A variant in which every Checkout works in the directory of the first.
DirShared(c) == 1

\* c.Dir(): the directory of the Checkout is the repoDir its Clone made
\* (Export{dir: repoDir}), which no other Checkout has.
Dir(c) == c

\* The failures that can happen in a call with these arguments.
CanFail(c, note, au, failAt, okOnErr) ==
    LET t1 == IF au THEN add(tree[c]) ELSE tree[c]
        changes == check(t1, conf.Paths, au)
    IN
    /\ failAt = "add" => au
    /\ failAt \in {"commit", "HeadRevision", "addNote", "refExists"} => changes
    /\ failAt \in {"HeadRevision", "addNote"} => note # NilNote
    \* the boolean that comes with an error of refExists is FALSE, or the truth
    /\ okOnErr => /\ failAt = "refExists"
                  /\ \/ refExists(localNotes[c], realNotesRef[c])
                     \/ note # NilNote

\* CommitAndPush(ctx, commitAction, note, addUntracked), up to the push.
CommitAndPush(c, commitAction, note, au, failAt, okOnErr) ==
    /\ HasCheckout(c)
    /\ txPc[c] = "ready"
    /\ CanFail(c, note, au, failAt, okOnErr)
    /\ LET r == LocalPhase(c, commitAction, note, au, failAt, okOnErr) IN
       /\ r.head # localHead[c] => CommitsBy(c) < MaxCommits
       /\ tree' = [tree EXCEPT ![Dir(c)] = r.tree]
       /\ localHead' = [localHead EXCEPT ![Dir(c)] = r.head]
       /\ localNotes' = [localNotes EXCEPT ![Dir(c)] = r.notes]
       /\ call' = [call EXCEPT ![c] = r.call]
       /\ txPc' = [txPc EXCEPT ![c] = IF r.call.ret = "running" THEN "push"
                                      ELSE "ready"]
       /\ quiet' = [quiet EXCEPT
                      ![c] = IF r.head # localHead[c]
                             THEN [valid |-> TRUE, au |-> au]
                             ELSE IF r.tree = tree[c] THEN @
                             ELSE [valid |-> FALSE, au |-> FALSE]]
    /\ UNCHANGED <<conf, cloneVars, localTag, mirrorVars, remoteVars>>

\* A variant that returns the error of push as it is.
PushReturnBare(cause) ==
    IF cause # "none"
    THEN [ret |-> "err", err |-> <<cause>>]
    ELSE [ret |-> "ok", err |-> <<>>]

\* if err := push(ctx, c.Dir(), c.upstream.URL, refs); err != nil {
\*     return PushError(c.upstream.URL, err) }
\* return nil
PushReturn(cause) ==
    IF cause # "none"
    THEN [ret |-> "PushError", err |-> <<UpstreamURL, cause>>]
    ELSE [ret |-> "ok", err |-> <<>>]

\* The push of CommitAndPush (lines 170-174).
CommitAndPushPush(c, transportOk) ==
    /\ txPc[c] = "push"
    /\ LET refs == call[c].refs
           res == PushReturn(pushCause(c, refs, transportOk))
       IN
       /\ remoteBranch' = pushedBranch(c, refs, transportOk)
       /\ remoteNotes' = pushedNotes(c, refs, transportOk)
       /\ call' = [call EXCEPT ![c].log = @ \o <<"push">>,
                               ![c].ret = res.ret,
                               ![c].err = res.err]
    /\ txPc' = [txPc EXCEPT ![c] = "ready"]
    /\ UNCHANGED <<conf, cloneVars, repoVars, mirrorVars, quiet, remoteTag,
                   others>>

\* ---------------------------------------------------------- Checkout.GetNote

\* return getNote(ctx, c.Dir(), c.realNotesRef, rev, note)
GetNote(c, rev) == getNote(localNotes[c], realNotesRef[c], rev)

\* return noteRevList(ctx, c.Dir(), c.realNotesRef)
NoteRevList(c) == noteRevList(localNotes[c], realNotesRef[c])

\* return refRevision(ctx, c.Dir(), "HEAD")
HeadRevision(c) == localHead[c]

\* ---------------------------------------------------- the caller's edits

\* Between two calls the caller changes files of the working tree: a
\* tracked file under directory d, or a new, untracked file.
EditTracked(c, d) ==
    /\ HasCheckout(c)
    /\ txPc[c] = "ready"
    /\ d \notin tree[c].modified
    /\ tree' = [tree EXCEPT ![c].modified = @ \cup {d}]
    /\ quiet' = [quiet EXCEPT ![c] = [valid |-> FALSE, au |-> FALSE]]
    /\ UNCHANGED <<conf, cloneVars, localHead, localTag, localNotes,
                   mirrorVars, txPc, call, remoteVars>>

EditUntracked(c) ==
    /\ HasCheckout(c)
    /\ txPc[c] = "ready"
    /\ ~tree[c].untracked
    /\ tree' = [tree EXCEPT ![c].untracked = TRUE]
    /\ quiet' = [quiet EXCEPT ![c] = [valid |-> FALSE, au |-> FALSE]]
    /\ UNCHANGED <<conf, cloneVars, localHead, localTag, localNotes,
                   mirrorVars, txPc, call, remoteVars>>

\* -------------------------------------------------- Checkout.MoveTagAndPush

\* moveTagAndPush(ctx, dir, url, tagAction): `git tag --force` of
\* tagAction.Tag at tagAction.Revision, then a forced push of the tag to url.
moveTag(tagAction) == tagAction.Revision
pushTagCause(c, transportOk) == IF transportOk THEN "none" ELSE "transport"
pushTagForce(c, transportOk) == IF transportOk THEN localTag[c] ELSE remoteTag

TagActions(c) == [Tag : {"v1"}, Revision : History(localHead[c]),
                  SigningKey : {"", CallKey}]

\* A variant that tags HEAD, whatever revision is asked for.
TagActionPassedHead(c, tagAction) ==
    [tagAction EXCEPT !.Revision = localHead[c]]

\* The tagAction that MoveTagAndPush hands to moveTagAndPush: the one it was
\* given, with its signing key filled in (lines 186-189).
TagActionPassed(c, tagAction) ==
    [tagAction EXCEPT !.SigningKey = EffectiveSigningKey(@)]

\* A variant that takes a lock shared by the checkouts: it waits while
\* another checkout is between its tag and its push.
MoveTagAndPushExclusive(c, tagAction, ok) ==
    /\ \A d \in Callers \ {c} : txPc[d] # "tagPush"
    /\ HasCheckout(c)
    /\ txPc[c] = "ready"
    /\ LET rec == [op |-> "MoveTagAndPush", tagAction |-> tagAction,
                   passed |-> TagActionPassed(c, tagAction),
                   remoteTagBefore |-> NoRev,
                   ret |-> "running", err |-> <<>>, log |-> <<"tag">>]
       IN
       IF ok
       THEN /\ localTag' = [localTag EXCEPT
                              ![c] = moveTag(TagActionPassed(c, tagAction))]
            /\ call' = [call EXCEPT ![c] = rec]
            /\ txPc' = [txPc EXCEPT ![c] = "tagPush"]
       ELSE /\ call' = [call EXCEPT ![c] = [rec EXCEPT !.ret = "err",
                                                       !.err = <<"tag">>]]
            /\ UNCHANGED <<localTag, txPc>>
    /\ UNCHANGED <<conf, cloneVars, localHead, localNotes, tree, mirrorVars,
                   quiet, remoteVars>>

\* MoveTagAndPush(ctx, tagAction), up to the push of moveTagAndPush:
\* return moveTagAndPush(ctx, c.Dir(), c.upstream.URL, tagAction)
MoveTagAndPush(c, tagAction, ok) ==
    /\ HasCheckout(c)
    /\ txPc[c] = "ready"
    /\ LET rec == [op |-> "MoveTagAndPush", tagAction |-> tagAction,
                   passed |-> TagActionPassed(c, tagAction),
                   remoteTagBefore |-> NoRev,
                   ret |-> "running", err |-> <<>>, log |-> <<"tag">>]
       IN
       IF ok
       THEN /\ localTag' = [localTag EXCEPT
                              ![c] = moveTag(TagActionPassed(c, tagAction))]
            /\ call' = [call EXCEPT ![c] = rec]
            /\ txPc' = [txPc EXCEPT ![c] = "tagPush"]
       ELSE /\ call' = [call EXCEPT ![c] = [rec EXCEPT !.ret = "err",
                                                       !.err = <<"tag">>]]
            /\ UNCHANGED <<localTag, txPc>>
    /\ UNCHANGED <<conf, cloneVars, localHead, localNotes, tree, mirrorVars,
                   quiet, remoteVars>>

\* The forced push of moveTagAndPush; its error is returned as it is.
MoveTagAndPushPush(c, transportOk) ==
    /\ txPc[c] = "tagPush"
    /\ remoteTag' = pushTagForce(c, transportOk)
    /\ call' = [call EXCEPT ![c].log = @ \o <<"push">>,
                            ![c].remoteTagBefore = remoteTag,
                            ![c].ret = IF transportOk THEN "ok" ELSE "err",
                            ![c].err = IF transportOk THEN <<>>
                                       ELSE <<"push", pushTagCause(c, transportOk)>>]
    /\ txPc' = [txPc EXCEPT ![c] = "ready"]
    /\ UNCHANGED <<conf, cloneVars, repoVars, mirrorVars, quiet, remoteBranch,
                   remoteNotes, others>>

\* ------------------------------------------------------- the other actors

\* Someone else pushes to the remote: a commit on the branch, a note under
\* the notes ref, or the tag moved to a revision of the branch.
OtherPushBranch ==
    /\ others < MaxOther
    /\ others' = others + 1
    /\ remoteBranch' = Append(remoteBranch, 0)
    /\ UNCHANGED <<conf, cloneVars, repoVars, mirrorVars, txVars, remoteTag,
                   remoteNotes>>

OtherPushNotes ==
    /\ others < MaxOther
    /\ others' = others + 1
    /\ remoteNotes' = [remoteNotes EXCEPT
                         ![FullNotesRef] = @ \cup {<<RootRev, OtherPayload>>}]
    /\ UNCHANGED <<conf, cloneVars, repoVars, mirrorVars, txVars, remoteTag,
                   remoteBranch>>

OtherPushTag(rev) ==
    /\ others < MaxOther
    /\ rev # remoteTag
    /\ others' = others + 1
    /\ remoteTag' = rev
    /\ UNCHANGED <<conf, cloneVars, repoVars, mirrorVars, txVars,
                   remoteBranch, remoteNotes>>

\* ------------------------------------------------------------ transactions

\* The working clone whose transactions TxSpec follows; the other clones
\* take part through what they push.
TxActors == {1}

\* Every caller holds the Checkout of a Clone that succeeded when the
\* upstream was at its k-th state and had the notes `notes`.
AfterClone(k, notes) ==
    /\ pc = [i \in Callers |-> "done"]
    /\ dir = [i \in Callers |-> TRUE]
    /\ ret = [i \in Callers |-> "ok"]
    /\ realNotesRef = [i \in Callers |-> getNotesRef(conf.NotesRef)]
    /\ fetchLog = [i \in Callers |->
                     <<[spec |-> TagsRefspec, ok |-> TRUE, locked |-> TRUE],
                       [spec |-> NotesRefspec(getNotesRef(conf.NotesRef)),
                        ok |-> TRUE, locked |-> TRUE]>>]
    /\ localHead = [i \in Callers |-> UpstreamHead(k)]
    /\ localTag = [i \in Callers |-> UpstreamTag(0)]
    /\ localNotes = [i \in Callers |->
                       [NoNotesRefs EXCEPT ![getNotesRef(conf.NotesRef)] = notes]]
    /\ tree = [i \in Callers |-> CleanTree]
    /\ readers = {}
    /\ writer = FALSE
    /\ refreshPc = "idle"
    /\ refreshes = 0
    /\ mirrorTag = UpstreamTag(0)
    /\ mirrorNotes = notes
    /\ mirrorHead = UpstreamHead(k)
    /\ txPc = [i \in Callers |-> "ready"]
    /\ call = [i \in Callers |-> NoCall]
    /\ quiet = [i \in Callers |-> [valid |-> FALSE, au |-> FALSE]]
    /\ remoteBranch = UpstreamHead(k)
    /\ remoteTag = UpstreamTag(0)
    /\ remoteNotes = [NoNotesRefs EXCEPT ![FullNotesRef] = notes]
    /\ others = 0

\* The working clone of a brand-new repository (no notes yet), configured
\* with the short name of the notes ref, with or without path filters.
TxInit ==
    /\ conf \in {c \in Configs : /\ ~c.GitSecret
                                 /\ c.NotesRef = ShortNotesRef
                                 /\ c.SigningKey = ConfigKey}
    /\ AfterClone(0, UpstreamNotes(0))

TxNext ==
    \/ \E c \in TxActors : \E note \in {NilNote, NotePayload(c)}, au \in BOOLEAN,
          failAt \in LocalSteps \cup {"none"}, okOnErr \in BOOLEAN :
          CommitAndPush(c, NoOverride, note, au, failAt, okOnErr)
    \/ \E c \in TxActors, transportOk \in BOOLEAN :
          CommitAndPushPush(c, transportOk)
    \/ \E c \in TxActors, d \in Dirs : EditTracked(c, d)
    \/ \E c \in TxActors : EditUntracked(c)
    \/ OtherPushBranch
    \/ OtherPushNotes

TxSpec == TxInit /\ [][TxNext]_vars

\* The step in which checkout c runs CommitAndPush up to its push, and the
\* step in which that push returns.
CallStarts(c) ==
    /\ txPc[c] = "ready"
    /\ call'[c] # call[c] \/ localHead'[c] # localHead[c]
    /\ call'[c].op = "CommitAndPush"

PushEnds(c) == txPc[c] = "push" /\ txPc'[c] = "ready"

RemoteUnchanged ==
    /\ remoteBranch' = remoteBranch
    /\ remoteNotes' = remoteNotes
    /\ remoteTag' = remoteTag

\* C4: a CommitAndPush whose change check finds no change returns
\* ErrNoChanges having run nothing but the staging (when asked for) and the
\* check: no commit, no note, no refExists, no push; the working tree, the
\* local branch and notes refs and the remote stay as they were.
C4_NoChangesNoMutation ==
    [][\A c \in Callers :
          CallStarts(c) /\ call'[c].check = "nochanges" =>
              /\ call'[c].ret = "ErrNoChanges"
              /\ call'[c].log \in {<<"check">>, <<"add", "check">>}
              /\ call'[c].refs = <<>>
              /\ txPc'[c] = "ready"
              /\ tree' = tree
              /\ localHead' = localHead
              /\ localNotes' = localNotes
              /\ RemoteUnchanged]_vars

\* A call without auto-staging returned ErrNoChanges although a file outside
\* the path filters is modified.
C4_Witness ==
    /\ conf.Paths = <<"manifests">>
    /\ call[1].op = "CommitAndPush"
    /\ call[1].ret = "ErrNoChanges"
    /\ ~call[1].au
    /\ call[1].note # NilNote
    /\ tree[1].modified = {"docs"}
    /\ localHead[1] = RootRev

\* What C5 asks of the call that follows a committing CommitAndPush with no
\* file changed in between: it ends with ErrNoChanges (or with the error of
\* its own staging) and creates no revision.
SecondCallFindsNothing(c) ==
    /\ call'[c].ret = "ErrNoChanges" \/ call'[c].failed = "add"
    /\ localHead'[c] = localHead[c]

C6_NoteOnNewCommit ==
    [][\A c \in Callers :
          /\ /\ CallStarts(c)
             /\ call'[c].note # NilNote
             /\ call'[c].ret = "running"
             => /\ Len(localHead'[c]) = Len(localHead[c]) + 1
                /\ IsAncestor(localHead[c], localHead'[c])
                /\ call'[c].rev = localHead'[c]
                /\ GetNote(c, localHead[c])' =
                       [ok |-> TRUE, note |-> call'[c].note]
                /\ NoteRevList(c)' = NoteRevList(c) \cup {localHead'[c]}
                /\ localHead'[c] \notin NoteRevList(c)
                /\ \A r \in NotesRefNames :
                       localNotes[c][r] \subseteq localNotes'[c][r]
                /\ \A r \in NotesRefNames \ {realNotesRef[c]} :
                       localNotes'[c][r] = localNotes[c][r]
                /\ realNotesRef[c] \in Range(call'[c].refs)
          /\ /\ PushEnds(c)
             /\ call[c].note # NilNote
             /\ call'[c].ret = "ok"
             => /\ call[c].rev = localHead[c]
                /\ GetNote(c, localHead[c]) =
                       [ok |-> TRUE, note |-> call[c].note]
                /\ <<localHead[c], call[c].note>> \in
                       remoteNotes'[realNotesRef[c]]]_vars

\* The second noted commit of a checkout has been pushed: both commits carry
\* their note, locally and on the remote.
C6_Witness ==
    /\ call[1].op = "CommitAndPush"
    /\ call[1].ret = "ok"
    /\ call[1].note # NilNote
    /\ call[1].rev = localHead[1]
    /\ GetNote(1, localHead[1]).ok
    /\ Cardinality(NoteRevList(1)) = 2
    /\ remoteNotes[realNotesRef[1]] = localNotes[1][realNotesRef[1]]

\* C7: the refs CommitAndPush is about to push are the branch, followed by
\* realNotesRef exactly when that ref exists in the checkout; without a local
\* notes ref and without a note the branch alone is pushed, and that push
\* succeeds whenever the remote is reached and the branch is a fast-forward.
C7_PushedRefs ==
    \A c \in Callers :
        txPc[c] = "push" =>
            LET refs == call[c].refs
                exists == refExists(localNotes[c], realNotesRef[c])
            IN
            /\ Len(refs) \in {1, 2}
            /\ refs[1] = BranchRef
            /\ Len(refs) = 2 => refs[2] = realNotesRef[c]
            /\ Len(refs) = 2 <=> exists
            /\ call[c].note # NilNote => exists
            /\ ~exists => /\ refs = <<BranchRef>>
                          /\ pushCause(c, refs, TRUE) # "nosrc"
                          /\ pushBranchOk(c) => pushCause(c, refs, TRUE) = "none"

\* A checkout without notes has pushed its first commit, the branch alone.
C7_Witness ==
    /\ call[1].op = "CommitAndPush"
    /\ call[1].ret = "ok"
    /\ call[1].note = NilNote
    /\ call[1].refs = <<BranchRef>>
    /\ localNotes[1] = NoNotesRefs
    /\ localHead[1] = <<0, 1>>
    /\ remoteBranch = localHead[1]

\* C9 as stated: when the push of CommitAndPush fails the call returns a
\* PushError with the URL and the cause, the checkout keeps its commit and
\* its note, and the remote is as it was before the push.
C9_PushErrorRemoteUntouched ==
    [][\A c \in Callers :
          PushEnds(c) /\ call'[c].ret # "ok" =>
              /\ call'[c].ret = "PushError"
              /\ call'[c].err[1] = UpstreamURL
              /\ localHead' = localHead
              /\ localNotes' = localNotes
              /\ RemoteUnchanged]_vars

\* C9: when the push of CommitAndPush fails the call returns a PushError
\* with the URL and the cause, and the checkout keeps its commit and its
\* note. The remote is as it was when the push did not reach it; when the
\* remote refused a ref, every ref is either as it was or as the checkout
\* has it, and at least one is as it was.
C9_PushErrorKeepsLocal ==
    [][\A c \in Callers :
          PushEnds(c) /\ call'[c].ret # "ok" =>
              LET real == realNotesRef[c] IN
              /\ call'[c].ret = "PushError"
              /\ Len(call'[c].err) = 2
              /\ call'[c].err[1] = UpstreamURL
              /\ call'[c].err[2] \in {"nosrc", "transport", "rejected"}
              /\ localHead' = localHead
              /\ localNotes' = localNotes
              /\ tree' = tree
              /\ call[c].note # NilNote =>
                     GetNote(c, localHead[c]) =
                         [ok |-> TRUE, note |-> call[c].note]
              /\ remoteTag' = remoteTag
              /\ remoteBranch' \in {remoteBranch, localHead[c]}
              /\ \A r \in NotesRefNames :
                     remoteNotes'[r] \in {remoteNotes[r], localNotes[c][r]}
              /\ call'[c].err[2] # "rejected" =>
                     remoteBranch' = remoteBranch /\ remoteNotes' = remoteNotes
              /\ call'[c].err[2] = "rejected" =>
                     \/ remoteBranch' = remoteBranch /\ ~pushBranchOk(c)
                     \/ /\ remoteNotes'[real] = remoteNotes[real]
                        /\ ~pushNotesOk(c, real)]_vars

\* A push was refused for the notes ref after the branch had been updated:
\* the call returned PushError, the remote branch is at the new commit.
C9_Witness ==
    /\ call[1].op = "CommitAndPush"
    /\ call[1].ret = "PushError"
    /\ call[1].err = <<UpstreamURL, "rejected">>
    /\ call[1].note # NilNote
    /\ GetNote(1, localHead[1]).ok
    /\ localHead[1] = <<0, 1>>
    /\ remoteBranch = localHead[1]
    /\ ~NotesDescend(localNotes[1][realNotesRef[1]],
                     remoteNotes[realNotesRef[1]])

\* C10: when the commit of CommitAndPush fails the call returns that error
\* at once: the commit is its last step (no HeadRevision, no addNote, no
\* refExists, no push), and the local refs and the remote stay as they were.
C10_CommitFailureStops ==
    [][\A c \in Callers :
          CallStarts(c) /\ call'[c].failed = "commit" =>
              /\ call'[c].ret = "err"
              /\ call'[c].err = <<"commit">>
              /\ call'[c].log \in {<<"check", "commit">>,
                                   <<"add", "check", "commit">>}
              /\ call'[c].rev = NoRev
              /\ call'[c].refs = <<>>
              /\ txPc'[c] = "ready"
              /\ localHead' = localHead
              /\ localNotes' = localNotes
              /\ RemoteUnchanged]_vars

\* C11: when HeadRevision or addNote fails after the commit of CommitAndPush,
\* the call returns that error with that step as its last: the new commit
\* is the head of the checkout, no refExists and no push follows, and the
\* remote is as it was.
C11_NoteFailureKeepsCommit ==
    [][\A c \in Callers :
          CallStarts(c) /\ call'[c].failed \in {"HeadRevision", "addNote"} =>
              /\ call'[c].ret = "err"
              /\ call'[c].err = <<call'[c].failed>>
              /\ call'[c].log[Len(call'[c].log)] = call'[c].failed
              /\ "refExists" \notin Range(call'[c].log)
              /\ call'[c].refs = <<>>
              /\ txPc'[c] = "ready"
              /\ localHead'[c] = commitRev(localHead[c], c)
              /\ localNotes' = localNotes
              /\ ~IsAncestor(localHead'[c], remoteBranch')
              /\ RemoteUnchanged]_vars

\* The note write of a call failed: its commit is the head of the checkout,
\* without a note, and the remote branch is where it was.
C11_Witness ==
    /\ call[1].op = "CommitAndPush"
    /\ call[1].failed = "addNote"
    /\ call[1].ret = "err"
    /\ localHead[1] = <<0, 1>>
    /\ ~GetNote(1, localHead[1]).ok
    /\ remoteBranch = RootRev

\* C17: whenever a low-level operation of CommitAndPush reports an error
\* (add, commit, HeadRevision, addNote, refExists before the push, or the
\* push itself), the call returns an error; an error of refExists makes the
\* call fail whatever boolean comes with it.
C17_NoErrorSwallowed ==
    [][\A c \in Callers :
          /\ CallStarts(c) /\ call'[c].failed # "none" =>
                 /\ call'[c].ret = "err"
                 /\ call'[c].err = <<call'[c].failed>>
                 /\ txPc'[c] = "ready"
          /\ PushEnds(c) =>
                 /\ call[c].failed = "none"
                 /\ call'[c].ret = "ok" =>
                        pushCause(c, call[c].refs, TRUE) = "none"]_vars

\* Checkout c has a commit that is not on the remote branch, left by a
\* CommitAndPush that committed, and no file has changed since.
HasUnpushedCommit(c) ==
    /\ quiet[c].valid
    /\ ~IsAncestor(localHead[c], remoteBranch)

\* The call of this step stops before the push: it returns ErrNoChanges (or
\* the error of its own staging), picks no refs to push, creates no revision
\* and leaves the remote alone.
StopsBeforePush(c) ==
    /\ call'[c].ret = "ErrNoChanges" \/ call'[c].failed = "add"
    /\ call'[c].refs = <<>>
    /\ txPc'[c] = "ready"
    /\ localHead'[c] = localHead[c]
    /\ RemoteUnchanged

\* C20 as stated: after a CommitAndPush that committed and then failed, any
\* further CommitAndPush without new file changes stops before the push
\* with the no-changes condition, so the unpushed commit stays unpushed.
C20_UnpushedNeverRetried ==
    [][\A c \in Callers :
          CallStarts(c) /\ HasUnpushedCommit(c) => StopsBeforePush(c)]_vars

\* C20: after a CommitAndPush that committed and then failed, a further
\* CommitAndPush without new file changes that auto-stages only if the
\* failed call did stops before the push with the no-changes condition
\* (or the error of its staging): the unpushed commit stays unpushed. Every
\* push of this checkout belongs to a call that made a commit of its own.
C20_UnpushedNotRetriedSameStaging ==
    [][\A c \in Callers :
          /\ /\ CallStarts(c)
             /\ HasUnpushedCommit(c)
             /\ call'[c].au => quiet[c].au
             => /\ StopsBeforePush(c)
                /\ ~IsAncestor(localHead'[c], remoteBranch')
          /\ PushEnds(c) => "commit" \in Range(call[c].log)]_vars

\* A call that auto-stages, as the one before it did, returned ErrNoChanges
\* while the commit of the earlier call is not on the remote branch, which
\* someone else has moved on.
C20_Witness ==
    /\ quiet[1].valid
    /\ quiet[1].au
    /\ call[1].op = "CommitAndPush"
    /\ call[1].ret = "ErrNoChanges"
    /\ call[1].au
    /\ call[1].note = NilNote
    /\ txPc[1] = "ready"
    /\ localHead[1] = <<0, 1>>
    /\ remoteBranch = <<0, 0>>

\* The commit of a call with a note failed: the changes are still in the
\* working tree, there is no new revision and no note.
C10_Witness ==
    /\ call[1].op = "CommitAndPush"
    /\ call[1].failed = "commit"
    /\ call[1].ret = "err"
    /\ call[1].note # NilNote
    /\ tree[1].modified # {}
    /\ localHead[1] = RootRev
    /\ NoteRevList(1) = {}
    /\ remoteBranch = RootRev

\* ---------------------------------------------------- Checkout.AbsolutePaths

\* A path is the sequence of its components. The filters a Config.Paths may
\* hold, as written and as split at the separators; "" is the empty string.
FilterNames == {"manifests", "manifests/prod", "./docs", "manifests/../docs", ""}

PathComponents(p) ==
    CASE p = "manifests" -> <<"manifests">>
      [] p = "manifests/prod" -> <<"manifests", "prod">>
      [] p = "./docs" -> <<".", "docs">>
      [] p = "manifests/../docs" -> <<"manifests", "..", "docs">>
      [] p = "" -> <<>>

\* filepath.Clean of an absolute path: "." is dropped, ".." drops the
\* component before it (none at the root).
RECURSIVE CleanInto(_, _)
CleanInto(done, rest) ==
    IF rest = <<>> THEN done
    ELSE IF Head(rest) = "." THEN CleanInto(done, Tail(rest))
    ELSE IF Head(rest) = ".."
         THEN CleanInto(IF done = <<>> THEN done
                        ELSE SubSeq(done, 1, Len(done) - 1), Tail(rest))
    ELSE CleanInto(Append(done, Head(rest)), Tail(rest))

\* filepath.Join(root, p): the non-empty elements joined, then cleaned.
Join(root, p) == CleanInto(<<>>, root \o PathComponents(p))

\* c.Dir() as a path: the temporary directory workingClone made.
DirPath(c) == <<"tmp", "flux-working" \o ToString(c)>>

\* AbsolutePaths without its test for an empty Config.Paths.
AbsolutePathsNoDefault(c) ==
    [k \in 1..Len(conf.Paths) |-> Join(DirPath(c), conf.Paths[k])]

\* func (c *Checkout) AbsolutePaths() []string
AbsolutePaths(c) ==
    IF Len(conf.Paths) = 0
    THEN <<DirPath(c)>>
    ELSE [k \in 1..Len(conf.Paths) |-> Join(DirPath(c), conf.Paths[k])]

\* A call of AbsolutePaths on checkout c; `config` is c.config.Paths when
\* the call returns.
AbsolutePathsCall(c) ==
    /\ HasCheckout(c)
    /\ txPc[c] = "ready"
    /\ call[c] = NoCall
    /\ call' = [call EXCEPT ![c] = [op |-> "AbsolutePaths",
                                    paths |-> AbsolutePaths(c),
                                    config |-> conf.Paths]]
    /\ UNCHANGED <<conf, cloneVars, repoVars, mirrorVars, txPc, quiet,
                   remoteVars>>

RECURSIVE PathLists(_)
PathLists(n) ==
    IF n = 0 THEN {<<>>}
    ELSE PathLists(n - 1) \cup
         {Append(l, p) : l \in {m \in PathLists(n - 1) : Len(m) = n - 1},
                         p \in FilterNames}

PathInit ==
    /\ conf \in [Paths : PathLists(MaxPaths), NotesRef : {ShortNotesRef},
                  GitSecret : {FALSE}, SigningKey : {ConfigKey}]
    /\ AfterClone(0, UpstreamNotes(0))

PathNext == \E c \in Callers : AbsolutePathsCall(c)

PathSpec == PathInit /\ [][PathNext]_vars

\* C16: AbsolutePaths returns at least one path: the directory of the
\* checkout alone when Config.Paths is empty, and otherwise one path for each
\* filter, in order, the k-th being filepath.Join of the directory and the
\* k-th filter; Config.Paths is left as it was.
C16_AbsolutePaths ==
    \A c \in Callers :
        call[c].op = "AbsolutePaths" =>
            LET r == call[c].paths
                n == Len(conf.Paths)
            IN
            /\ Len(r) >= 1
            /\ n = 0 => r = <<DirPath(c)>>
            /\ n > 0 => /\ Len(r) = n
                        /\ \A k \in 1..n :
                               r[k] = Join(DirPath(c), conf.Paths[k])
            /\ call[c].config = conf.Paths

\* AbsolutePaths has returned two cleaned paths, in the order of the two
\* filters of the checkout.
C16_Witness ==
    /\ call[1].op = "AbsolutePaths"
    /\ conf.Paths = <<"manifests/../docs", "">>
    /\ call[1].paths = <<DirPath(1) \o <<"docs">>, DirPath(1)>>

\* Two working clones of the same branch run CommitAndPush concurrently.
RaceActors == {1, 2}

RaceInit ==
    /\ conf \in {c \in Configs : ~c.GitSecret /\ c.Paths = <<>>
                                 /\ c.NotesRef = ShortNotesRef
                                 /\ c.SigningKey = ConfigKey}
    /\ AfterClone(0, UpstreamNotes(0))

\* The local steps of the calls succeed here: the clones meet at the push.
RaceNext ==
    \/ \E c \in RaceActors : \E note \in {NilNote, NotePayload(c)} :
          CommitAndPush(c, NoOverride, note, FALSE, "none", FALSE)
    \/ \E c \in RaceActors, transportOk \in BOOLEAN :
          CommitAndPushPush(c, transportOk)
    \/ \E c \in RaceActors : EditTracked(c, "manifests")

RaceSpec == RaceInit /\ [][RaceNext]_vars

\* What checkout c holds in its directory.
LocalRepo(c) == <<tree[c], localHead[c], localTag[c], localNotes[c]>>

\* C12: a step of CommitAndPush of one checkout leaves the directory and the
\* refs of every other checkout as they were, and only its push touches the
\* remote. A push moves the remote branch forward only (no commit of the
\* remote branch is lost); the push of a checkout whose head does not
\* descend from the remote branch, another checkout having pushed first,
\* returns a PushError for the refused ref and leaves the remote branch.
C12_ClonesMeetAtRemoteOnly ==
    [][\A c \in RaceActors :
          /\ CallStarts(c) \/ PushEnds(c) =>
                 \A d \in Callers \ {c} : LocalRepo(d)' = LocalRepo(d)
          /\ CallStarts(c) => RemoteUnchanged
          /\ PushEnds(c) =>
                 /\ LocalRepo(c)' = LocalRepo(c)
                 /\ IsAncestor(remoteBranch, remoteBranch')
                 /\ \A r \in NotesRefNames :
                        NotesDescend(remoteNotes[r], remoteNotes'[r])
                 /\ ~IsAncestor(remoteBranch, localHead[c]) =>
                        /\ call'[c].ret = "PushError"
                        /\ call'[c].err[1] = UpstreamURL
                        /\ call'[c].err[2] \in {"rejected", "transport"}
                        /\ remoteBranch' = remoteBranch
                 /\ call'[c].ret = "ok" => remoteBranch' = localHead[c]]_vars

\* Both checkouts committed on the root; the first pushed, the push of the
\* second was refused: the remote branch is at the commit of the first.
C12_Witness ==
    /\ call[1].op = "CommitAndPush"
    /\ call[2].op = "CommitAndPush"
    /\ call[1].ret = "ok"
    /\ call[2].ret = "PushError"
    /\ call[2].err = <<UpstreamURL, "rejected">>
    /\ localHead[1] = <<0, 1>>
    /\ localHead[2] = <<0, 2>>
    /\ remoteBranch = localHead[1]

\* The tag transactions of the working clones of a repository whose branch
\* has one commit after the root.
TagInit ==
    /\ conf \in {c \in Configs : ~c.GitSecret /\ c.Paths = <<>>
                                 /\ c.NotesRef = ShortNotesRef
                                 /\ c.SigningKey = ConfigKey}
    /\ AfterClone(1, UpstreamNotes(0))

\* The calls of TagSpec give no signing key of their own.
TagNext ==
    \/ \E c \in Callers :
          \E tagAction \in {a \in TagActions(c) : a.SigningKey = ""},
             ok \in BOOLEAN :
             MoveTagAndPush(c, tagAction, ok)
    \/ \E c \in Callers, transportOk \in BOOLEAN :
          MoveTagAndPushPush(c, transportOk)
    \/ \E rev \in History(remoteBranch) : OtherPushTag(rev)

TagSpec == TagInit /\ [][TagNext]_vars

TagPushEnds(c) == txPc[c] = "tagPush" /\ txPc'[c] = "ready"

\* C8: when the push of MoveTagAndPush returns, the tag of the checkout is
\* at the revision asked for; a push that succeeds leaves the remote's tag
\* there too, whatever the remote had; the only error of the push is that
\* the remote was not reached, and then the remote's tag is as it was.
C8_TagMovedOnRemote ==
    [][\A c \in Callers :
          TagPushEnds(c) =>
              LET B == call[c].tagAction.Revision IN
              /\ localTag'[c] = B
              /\ call'[c].ret \in {"ok", "err"}
              /\ call'[c].ret = "ok" => remoteTag' = B /\ call'[c].err = <<>>
              /\ call'[c].ret = "err" =>
                     /\ call'[c].err = <<"push", "transport">>
                     /\ remoteTag' = remoteTag]_vars

\* ------------------------------------------------------------ signing keys

\* One working clone commits and moves the tag, with and without a signing
\* key of the caller's, under a Config with and without a signing key.
KeyInit ==
    /\ conf \in {c \in Configs : ~c.GitSecret /\ c.Paths = <<>>
                                 /\ c.NotesRef = ShortNotesRef}
    /\ AfterClone(1, UpstreamNotes(0))

KeyNext ==
    \/ \E commitAction \in CommitActions, failAt \in {"none", "commit"} :
          CommitAndPush(1, commitAction, NilNote, FALSE, failAt, FALSE)
    \/ \E transportOk \in BOOLEAN : CommitAndPushPush(1, transportOk)
    \/ EditTracked(1, "manifests")
    \/ \E tagAction \in TagActions(1), ok \in BOOLEAN :
          MoveTagAndPush(1, tagAction, ok)
    \/ \E transportOk \in BOOLEAN : MoveTagAndPushPush(1, transportOk)

KeySpec == KeyInit /\ [][KeyNext]_vars

\* The key a call signs with, given the key its caller passed.
KeyRule(given) == IF given # "" THEN given ELSE conf.SigningKey

\* C18: the commit of CommitAndPush and the tag of MoveTagAndPush are signed
\* with the key the caller passed when it is not empty, and with the key of
\* the Config otherwise; tag and revision are passed on as given; no step
\* changes the Config, so that the key of a call depends on nothing an
\* earlier call passed.
C18_SigningKey ==
    [][/\ conf' = conf
       /\ \A c \in Callers :
             /\ CallStarts(c) /\ "commit" \in Range(call'[c].log) =>
                    call'[c].key = KeyRule(call'[c].commitAction.SigningKey)
             /\ /\ txPc[c] = "ready"
                /\ call'[c] # call[c]
                /\ call'[c].op = "MoveTagAndPush"
                => /\ call'[c].passed.SigningKey =
                          KeyRule(call'[c].tagAction.SigningKey)
                   /\ call'[c].passed.Tag = call'[c].tagAction.Tag
                   /\ call'[c].passed.Revision =
                          call'[c].tagAction.Revision]_vars

\* The second commit of a checkout that has also moved the tag is signed
\* with the key of the Config, its caller having passed none.
C18_Witness ==
    /\ conf.SigningKey = ConfigKey
    /\ call[1].op = "CommitAndPush"
    /\ call[1].commitAction.SigningKey = ""
    /\ call[1].key = ConfigKey
    /\ CommitsBy(1) = 2
    /\ localTag[1] # UpstreamTag(0)

\* Nothing makes one checkout wait for another: a checkout that is ready can
\* start MoveTagAndPush, and one that has tagged can push.
NoTagLock ==
    \A c \in Callers :
        /\ HasCheckout(c) /\ txPc[c] = "ready" =>
               \A tagAction \in TagActions(c) :
                   ENABLED MoveTagAndPush(c, tagAction, TRUE)
        /\ txPc[c] = "tagPush" => ENABLED MoveTagAndPushPush(c, TRUE)

\* C13: the MoveTagAndPush calls of several checkouts never wait for one
\* another; each push that reaches the remote succeeds and puts the remote's
\* tag at its own revision, whatever another checkout has tagged or pushed,
\* without changing the tag or the call of any other checkout: the remote's
\* tag is at the revision of the push applied last.
C13_LastTagWriterWins ==
    /\ []NoTagLock
    /\ [][\A c \in Callers :
             TagPushEnds(c) =>
                 /\ call'[c].ret = "ok" =>
                        remoteTag' = call[c].tagAction.Revision
                 /\ call'[c].ret # "ok" =>
                        /\ call'[c].err = <<"push", "transport">>
                        /\ remoteTag' = remoteTag
                 /\ \A d \in Callers \ {c} :
                        /\ localTag'[d] = localTag[d]
                        /\ call'[d] = call[d]
                        /\ txPc'[d] = txPc[d]]_vars

\* Two checkouts are inside MoveTagAndPush at the same time: each has moved
\* its tag, to different revisions, and neither has pushed yet.
C13_Witness ==
    \E c, d \in Callers :
        /\ c # d
        /\ txPc[c] = "tagPush"
        /\ txPc[d] = "tagPush"
        /\ call[c].tagAction.Revision # call[d].tagAction.Revision
        /\ localTag[c] = call[c].tagAction.Revision
        /\ localTag[d] = call[d].tagAction.Revision
        /\ remoteTag = UpstreamTag(0)

\* One checkout moved the tag to A and then to B, no one else touching it:
\* the remote had the tag at A, and has it at B now.
C8_Witness ==
    \E c \in Callers :
        /\ call[c].op = "MoveTagAndPush"
        /\ call[c].ret = "ok"
        /\ call[c].remoteTagBefore # UpstreamTag(0)
        /\ call[c].remoteTagBefore # call[c].tagAction.Revision
        /\ remoteTag = call[c].tagAction.Revision
        /\ localTag[c] = remoteTag
        /\ others = 0
        /\ \A d \in Callers \ {c} : call[d] = NoCall

====
